---- MODULE Spec2Model ----
(***************************************************************************)
(* Model of stockbench/agents/fundamental_filter_agent.py.                 *)
(*                                                                         *)
(* Two entry points are modelled: the module-level helper                  *)
(* _build_history_from_previous_decisions and the agent function           *)
(* filter_stocks_needing_fundamental.  One invocation is one behaviour:    *)
(* Init fixes the arguments and the behaviour of the classification        *)
(* service; the actions are the successive blocks of the function body.    *)
(*                                                                         *)
(* Python values are tagged records, so that "wrong type" inputs can be    *)
(* told apart from well-formed ones:                                       *)
(*   [t |-> "nokey"]            the key is absent from the mapping         *)
(*   [t |-> "none"]             None                                       *)
(*   [t |-> "str", s |-> ...]   a string                                   *)
(*   [t |-> "num", n |-> ...]   a number                                   *)
(*   [t |-> "date", y, m, d]    an object with strftime                    *)
(*   [t |-> "notdict"]          a value that is not a mapping              *)
(*   [t |-> "dict", ...]        a mapping; one field per key of interest   *)
(***************************************************************************)
EXTENDS Integers, Sequences, FiniteSets, TLC

VARIABLES
    call,                 \* which function is invoked: "filter" | "build_history"
    pc,                   \* position in the invoked function
    enable_llm,           \* argument
    cfg,                  \* argument
    ctx,                  \* argument
    features_list,        \* argument
    previous_decisions,   \* argument
    decision_history,     \* argument
    current_features,     \* argument of _build_history_from_previous_decisions
    service,              \* what client.generate_json will do when called
    llm_cfg_raw,          \* local of filter_stocks_needing_fundamental
    symbols,              \* local: symbol -> {"features": filtered_features}
    portfolio_info,       \* local: filter_input["portfolio_info"]
    history,              \* local / return value of the history builder
    trade_date,           \* local
    datetime_local,       \* binding of the function-local name `datetime`
    data,                 \* local: response of the classification call
    llm_calls,            \* number of client.generate_json calls made
    caught,               \* exception caught by the handler of line 366
    exc,                  \* exception that left the function, if any
    result                \* value returned by filter_stocks_needing_fundamental

vars == <<call, pc, enable_llm, cfg, ctx, features_list, previous_decisions,
          decision_history, current_features, service, llm_cfg_raw, symbols,
          portfolio_info, history, trade_date, datetime_local, data,
          llm_calls, caught, exc, result>>

-----------------------------------------------------------------------------
(* Bounds *)

MaxItems == 2        \* longest features_list
MaxNeed == 2         \* longest stocks_need_fundamental list the service returns
MaxDecisions == 2    \* most per-symbol entries in previous_decisions

-----------------------------------------------------------------------------
(* Python values *)

NoKey == [t |-> "nokey"]
None == [t |-> "none"]
NotDict == [t |-> "notdict"]
Str(s) == [t |-> "str", s |-> s]
Num(n) == [t |-> "num", n |-> n]
DateObj(y, m, d) == [t |-> "date", y |-> y, m |-> m, d |-> d]

\* dict.get(key, default) for a field that is NoKey when the key is absent
Get(field, default) == IF field.t = "nokey" THEN default ELSE field

\* Python truth value of the values used as conditions
Truthy(v) ==
    CASE v.t = "none" -> FALSE
      [] v.t = "nokey" -> FALSE
      [] v.t = "str" -> v.s # ""
      [] v.t = "num" -> v.n # 0
      [] OTHER -> TRUE

Min(a, b) == IF a <= b THEN a ELSE b

\* an empty mapping, as a function with empty domain
EmptyMap == [k \in {} |-> None]

-----------------------------------------------------------------------------
(* _build_history_from_previous_decisions *)

\* lines 47-56: the date of the __meta__ entry, None when there is none
HistoryDate(pd) ==
    IF pd.meta.t = "dict" /\ pd.meta.date.t # "nokey" THEN pd.meta.date ELSE None

\* line 72: current_features[symbol].get("position_state", {})
\*                                  .get("current_position_value", 0.0)
\* raised is TRUE when the lookup raises (a value that is not a mapping)
CurrentPos(cf, symbol) ==
    LET features == cf.map[symbol] IN
    IF features.t # "dict" THEN [raised |-> TRUE, value |-> None]
    ELSE LET position_state == features.position_state IN
         IF position_state.t = "nokey" THEN [raised |-> FALSE, value |-> Num(0)]
         ELSE IF position_state.t # "dict" THEN [raised |-> TRUE, value |-> None]
         ELSE [raised |-> FALSE,
               value |-> Get(position_state.current_position_value, Num(0))]

\* line 69: the condition under which the hold repair is attempted
HoldRepairGuardIgnoringCashChange(action, target_cash_amount, cash_change) ==
    /\ action.t = "str" /\ action.s = "hold"
    /\ target_cash_amount.t = "num" /\ target_cash_amount.n = 0

HoldRepairGuard(action, target_cash_amount, cash_change) ==
    /\ action.t = "str" /\ action.s = "hold"
    /\ target_cash_amount.t = "num" /\ target_cash_amount.n = 0
    /\ cash_change.t = "num" /\ cash_change.n = 0

\* lines 63-88: the record built for one entry; raised is TRUE when the
\* lookup of line 72 or the comparison of line 73 raises
HistoryRecord(symbol, decision, history_date, cf) ==
    LET action == Get(decision.action, Str("hold"))
        cash_change == Get(decision.cash_change, Num(0))
        target == Get(decision.target_cash_amount, Num(0))
        rec(t) == [date |-> history_date, action |-> action,
                   cash_change |-> cash_change, target_cash_amount |-> t,
                   reasons |-> Get(decision.reasons, <<>>),
                   confidence |-> Get(decision.confidence, Str("0.5"))]
    IN  IF HoldRepairGuard(action, target, cash_change)
        THEN IF cf.t = "dict" /\ symbol \in DOMAIN cf.map
             THEN LET cp == CurrentPos(cf, symbol) IN
                  IF cp.raised \/ cp.value.t # "num"
                  THEN [raised |-> TRUE, record |-> None]
                  ELSE IF cp.value.n > 0
                  THEN [raised |-> FALSE, record |-> rec(cp.value)]
                  ELSE [raised |-> FALSE, record |-> rec(target)]
             ELSE [raised |-> FALSE, record |-> rec(target)]
        ELSE [raised |-> FALSE, record |-> rec(target)]

\* lines 58-91 inside the try of line 43: the loop over the entries.  An
\* exception leaves the loop for the handler of line 95, which keeps what
\* the loop has stored so far.
RECURSIVE HistoryLoop(_, _, _, _)
HistoryLoop(entries, history_date, cf, acc) ==
    IF entries = <<>> THEN acc
    ELSE LET symbol == Head(entries).symbol
             decision == Head(entries).decision
         IN  IF decision.t # "dict"
             THEN HistoryLoop(Tail(entries), history_date, cf, acc)
             ELSE LET r == HistoryRecord(symbol, decision, history_date, cf) IN
                  IF r.raised THEN acc
                  ELSE HistoryLoop(Tail(entries), history_date, cf,
                                   (symbol :> <<r.record>>) @@ acc)

\* lines 33-98: pd is None, an empty mapping, a value without .items(), or a
\* mapping with an optional __meta__ entry and an ordered list of entries
BuildHistory(pd, cf) ==
    IF pd.t = "none" \/ (pd.t = "dict" /\ pd.meta.t = "nokey" /\ pd.entries = <<>>)
    THEN EmptyMap
    ELSE IF pd.t # "dict" THEN EmptyMap
    ELSE HistoryLoop(pd.entries, HistoryDate(pd), cf, EmptyMap)

-----------------------------------------------------------------------------
(* filter_stocks_needing_fundamental: symbols and returned results *)

\* item.get("symbol", "UNKNOWN")
SymbolOf(item) == IF item.symbol.t = "nokey" THEN "UNKNOWN" ELSE item.symbol.s

\* [item.get("symbol", "UNKNOWN") for item in features_list]
SymbolList(fl) == [i \in 1..Len(fl) |-> SymbolOf(fl[i])]

\* line 342: {item.get("symbol", "UNKNOWN") for item in features_list}
InputSymbols(fl) == {SymbolOf(fl[i]) : i \in 1..Len(fl)}

\* lines 131-137: the result when the LLM is not enabled
DisabledResultNoneRequired(fl) ==
    [stocks_need_fundamental |-> <<>>,
     reasoning |-> [s \in InputSymbols(fl) |->
        "LLM not enabled, no fundamental analysis for " \o s]]

DisabledResult(fl) ==
    [stocks_need_fundamental |-> SymbolList(fl),
     reasoning |-> [s \in InputSymbols(fl) |->
        "LLM not enabled, requiring fundamental analysis for " \o s
            \o " as conservative fallback"]]

\* lines 313-321: data is falsy or not a mapping
InvalidFormatFallback(fl) ==
    [stocks_need_fundamental |-> SymbolList(fl),
     reasoning |-> [s \in InputSymbols(fl) |->
        "LLM returned invalid format, requiring fundamental analysis as fallback"]]

\* lines 328-335: stocks_need_fundamental is not a list
NotAListFallback(fl) ==
    [stocks_need_fundamental |-> SymbolList(fl),
     reasoning |-> [s \in InputSymbols(fl) |->
        "Invalid filter result format, requiring fundamental analysis as fallback"]]

\* line 372: str(e)[:50]
TruncateMessageNoLimit(message) == message

TruncateMessage(message) == SubSeq(message, 1, Min(Len(message), 50))

\* lines 366-374: the handler of any exception raised in the try of line 305
ExceptionFallback(fl, message) ==
    [stocks_need_fundamental |-> SymbolList(fl),
     reasoning |-> [s \in InputSymbols(fl) |->
        "Error during filtering (" \o TruncateMessage(message)
            \o "), requiring fundamental analysis as fallback"]]

\* `not data or not isinstance(data, dict)` of line 313
InvalidFormat(d) ==
    \/ d.t # "dict"
    \/ d.need.t = "nokey" /\ d.reasoning.t = "nokey" /\ ~d.extra

\* line 324: data.get("stocks_need_fundamental", [])
NeedOf(d) == Get(d.need, [t |-> "list", items |-> <<>>])

\* lines 325 and 337-339: data.get("reasoning", {}), {} when not a mapping
ReasoningOf(d) ==
    LET r == Get(d.reasoning, [t |-> "dict", map |-> EmptyMap])
    IN  IF r.t = "dict" THEN r.map ELSE EmptyMap

\* `symbol in stocks_need_fundamental` of line 345 (list membership by ==)
InNeedList(symbol, items) ==
    \E i \in 1..Len(items) : items[i].t = "str" /\ items[i].s = symbol

\* lines 341-348: every input symbol gets a reasoning entry
FillReasoningNoDefaults(reasoning, input_symbols, items) == reasoning

FillReasoning(reasoning, input_symbols, items) ==
    [s \in DOMAIN reasoning \cup input_symbols |->
        IF s \in DOMAIN reasoning THEN reasoning[s]
        ELSE IF InNeedList(s, items)
        THEN "Requires fundamental analysis (no specific reasoning provided)"
        ELSE "Technical analysis sufficient (no specific reasoning provided)"]

\* line 351: [symbol for symbol in stocks_need_fundamental
\*                   if symbol in input_symbols]
\* (`symbol in input_symbols` hashes symbol: see Unhashable)
RECURSIVE FilterHallucinatedKeepAll(_, _)
FilterHallucinatedKeepAll(items, input_symbols) ==
    IF items = <<>> THEN <<>>
    ELSE <<Head(items).s>> \o FilterHallucinatedKeepAll(Tail(items), input_symbols)

RECURSIVE FilterHallucinated(_, _)
FilterHallucinated(items, input_symbols) ==
    IF items = <<>> THEN <<>>
    ELSE (IF Head(items).s \in input_symbols THEN <<Head(items).s>> ELSE <<>>)
            \o FilterHallucinated(Tail(items), input_symbols)

\* an element of the list that cannot be hashed makes line 351 raise TypeError
Unhashable(items) == \E i \in 1..Len(items) : items[i].t # "str"

UnhashableMessage == "unhashable type: 'list'"

\* lines 341-364: the sanitized result of a response that passed the checks
SanitizedResult(fl, d) ==
    [stocks_need_fundamental |->
        FilterHallucinated(NeedOf(d).items, InputSymbols(fl)),
     reasoning |->
        FillReasoning(ReasoningOf(d), InputSymbols(fl), NeedOf(d).items)]

-----------------------------------------------------------------------------
(* filter_stocks_needing_fundamental: request assembly, lines 190-251 *)

\* the {} that .get("features", {}) and .get("market_data", {}) default to
EmptyFeatures ==
    [t |-> "dict", market_data |-> NoKey, position_state |-> NoKey,
     fundamental_data |-> NoKey]

EmptyMarketData == [t |-> "dict", date |-> NoKey, timestamp |-> NoKey]

\* lines 199-202: the features without the fundamental_data section
FilteredFeatures(features) == [features EXCEPT !.fundamental_data = NoKey]

\* lines 194-211, one iteration: the position value of one candidate.
\* raised: features has no .items(), position_state has no .get(), or the
\* value cannot be added to a float
ItemPosition(item) ==
    LET features == Get(item.features, EmptyFeatures) IN
    IF features.t # "dict" THEN [raised |-> TRUE, value |-> 0]
    ELSE LET position_state == FilteredFeatures(features).position_state IN
         IF position_state.t = "nokey" THEN [raised |-> FALSE, value |-> 0]
         ELSE IF position_state.t # "dict" THEN [raised |-> TRUE, value |-> 0]
         ELSE LET v == Get(position_state.current_position_value, Num(0)) IN
              IF v.t = "num" THEN [raised |-> FALSE, value |-> v.n]
              ELSE [raised |-> TRUE, value |-> 0]

\* lines 192-211: total_current_position over the whole list
RECURSIVE TotalPosition(_)
TotalPosition(fl) ==
    IF fl = <<>> THEN [raised |-> FALSE, value |-> 0]
    ELSE LET h == ItemPosition(Head(fl))
             r == TotalPosition(Tail(fl))
         IN  IF h.raised \/ r.raised THEN [raised |-> TRUE, value |-> 0]
             ELSE [raised |-> FALSE, value |-> h.value + r.value]

\* lines 191, 209-211: symbols[symbol] = {"features": filtered_features};
\* a later item with the same symbol replaces an earlier one
LastIndexOf(fl, s) ==
    CHOOSE i \in 1..Len(fl) :
        SymbolOf(fl[i]) = s /\ \A j \in (i+1)..Len(fl) : SymbolOf(fl[j]) # s

SymbolsMap(fl) ==
    [s \in InputSymbols(fl) |->
        [features |->
            FilteredFeatures(Get(fl[LastIndexOf(fl, s)].features, EmptyFeatures))]]

\* lines 233-237: current_features[symbol] = features
CurrentFeatures(fl) ==
    [t |-> "dict",
     map |-> [s \in InputSymbols(fl) |->
                Get(fl[LastIndexOf(fl, s)].features, EmptyFeatures)]]

\* truth value of a ctx mapping: None and the empty mapping are false
CtxTruthy(c) == c.t = "dict" /\ (c.date.t # "nokey" \/ c.portfolio.t # "nokey")

DefaultTotalCash == 100000

\* lines 214-224 and 244-248: portfolio_info.  raised: ctx["portfolio"] has
\* no attribute cash, or float() rejects it
PortfolioInfo(c, config, total_current_position) ==
    IF CtxTruthy(c) /\ c.portfolio.t # "nokey"
    THEN LET cash == c.portfolio.cash IN
         IF cash.t # "num" THEN [raised |-> TRUE, value |-> None]
         ELSE [raised |-> FALSE,
               value |-> [total_assets |-> cash.n + total_current_position,
                          available_cash |-> cash.n,
                          position_value |-> total_current_position]]
    ELSE LET portfolio_cfg ==
                 IF config.t = "dict"
                 THEN Get(config.portfolio, [t |-> "dict", total_cash |-> NoKey])
                 ELSE [t |-> "dict", total_cash |-> NoKey]
             total_assets == Get(portfolio_cfg.total_cash, Num(DefaultTotalCash)).n
         IN  [raised |-> FALSE,
              value |-> [total_assets |-> total_assets,
                         available_cash |-> total_assets - total_current_position,
                         position_value |-> total_current_position]]

\* lines 227-240: the history placed in the request
RequestHistory(dh, pd, fl) ==
    IF dh.t = "dict" /\ DOMAIN dh.map # {} THEN dh.map
    ELSE BuildHistory(pd, CurrentFeatures(fl))

-----------------------------------------------------------------------------
(* filter_stocks_needing_fundamental: trade date, lines 253-297 *)

Char(s, i) == SubSeq(s, i, i)

Digit(c) ==
    CASE c = "0" -> 0 [] c = "1" -> 1 [] c = "2" -> 2 [] c = "3" -> 3
      [] c = "4" -> 4 [] c = "5" -> 5 [] c = "6" -> 6 [] c = "7" -> 7
      [] c = "8" -> 8 [] c = "9" -> 9 [] OTHER -> -1

IsDigits(s) == \A i \in 1..Len(s) : Digit(Char(s, i)) >= 0

RECURSIVE ToNumber(_)
ToNumber(s) ==
    IF s = "" THEN 0
    ELSE 10 * ToNumber(SubSeq(s, 1, Len(s) - 1)) + Digit(Char(s, Len(s)))

\* timestamp.replace('Z', '+00:00') of line 272
RECURSIVE ReplaceZ(_)
ReplaceZ(s) ==
    IF s = "" THEN ""
    ELSE (IF Char(s, 1) = "Z" THEN "+00:00" ELSE Char(s, 1))
            \o ReplaceZ(SubSeq(s, 2, Len(s)))

DaysInMonth(y, m) ==
    IF m = 2
    THEN (IF (y % 4 = 0 /\ y % 100 # 0) \/ y % 400 = 0 THEN 29 ELSE 28)
    ELSE IF m \in {4, 6, 9, 11} THEN 30 ELSE 31

\* "HH:MM:SS"
IsTime(s) ==
    /\ Len(s) = 8
    /\ Char(s, 3) = ":" /\ Char(s, 6) = ":"
    /\ IsDigits(SubSeq(s, 1, 2)) /\ ToNumber(SubSeq(s, 1, 2)) < 24
    /\ IsDigits(SubSeq(s, 4, 5)) /\ ToNumber(SubSeq(s, 4, 5)) < 60
    /\ IsDigits(SubSeq(s, 7, 8)) /\ ToNumber(SubSeq(s, 7, 8)) < 60

\* "+HH:MM" or "-HH:MM"
IsOffset(s) ==
    /\ Len(s) = 6
    /\ Char(s, 1) \in {"+", "-"}
    /\ Char(s, 4) = ":"
    /\ IsDigits(SubSeq(s, 2, 3)) /\ ToNumber(SubSeq(s, 2, 3)) < 24
    /\ IsDigits(SubSeq(s, 5, 6)) /\ ToNumber(SubSeq(s, 5, 6)) < 60

\* datetime.fromisoformat for the forms YYYY-MM-DD, YYYY-MM-DD?HH:MM:SS and
\* YYYY-MM-DD?HH:MM:SS+HH:MM (? is any one character); raised is ValueError
FromIsoFormat(s) ==
    LET bad == [raised |-> TRUE, y |-> 0, m |-> 0, d |-> 0]
        y == ToNumber(SubSeq(s, 1, 4))
        m == ToNumber(SubSeq(s, 6, 7))
        d == ToNumber(SubSeq(s, 9, 10))
        dateOk ==
            /\ Len(s) >= 10
            /\ IsDigits(SubSeq(s, 1, 4)) /\ Char(s, 5) = "-"
            /\ IsDigits(SubSeq(s, 6, 7)) /\ Char(s, 8) = "-"
            /\ IsDigits(SubSeq(s, 9, 10))
            /\ y >= 1 /\ m \in 1..12 /\ d \in 1..DaysInMonth(y, m)
        restOk ==
            \/ Len(s) = 10
            \/ Len(s) = 19 /\ IsTime(SubSeq(s, 12, 19))
            \/ Len(s) = 25 /\ IsTime(SubSeq(s, 12, 19)) /\ IsOffset(SubSeq(s, 20, 25))
    IN  IF dateOk /\ restOk THEN [raised |-> FALSE, y |-> y, m |-> m, d |-> d]
        ELSE bad

Pad(n, width) ==
    LET digits == ToString(n)
        zeros == [k \in 0..4 |-> CASE k = 0 -> "" [] k = 1 -> "0" [] k = 2 -> "00"
                                   [] k = 3 -> "000" [] OTHER -> "0000"]
    IN  IF Len(digits) >= width THEN digits ELSE zeros[width - Len(digits)] \o digits

\* strftime("%Y-%m-%d")
Strftime(dt) == Pad(dt.y, 4) \o "-" \o Pad(dt.m, 2) \o "-" \o Pad(dt.d, 2)

\* datetime.now() of lines 290 and 296
Now == DateObj(2024, 3, 20)

\* lines 272-273.  `datetime` is assigned by the imports of lines 289 and
\* 295, so it is a local name of the whole function body: reading it before
\* one of those imports ran raises UnboundLocalError
ParseTimestamp(timestamp, binding) ==
    IF binding = "unbound" THEN [raised |-> TRUE, value |-> ""]
    ELSE LET dt == FromIsoFormat(ReplaceZ(timestamp)) IN
         IF dt.raised THEN [raised |-> TRUE, value |-> ""]
         ELSE [raised |-> FALSE, value |-> Strftime(dt)]

\* item.get("features", {}).get("market_data", {}) of lines 259-260
MarketData(item) ==
    Get(Get(item.features, EmptyFeatures).market_data, EmptyMarketData)

\* lines 258-276: the loop over the candidates.  raised: `"date" in
\* market_data` on a market_data that is not a container
RECURSIVE ScanFeatures(_, _)
ScanFeatures(fl, binding) ==
    IF fl = <<>> THEN [raised |-> FALSE, trade_date |-> None]
    ELSE LET market_data == MarketData(Head(fl)) IN
         IF market_data.t # "dict" THEN [raised |-> TRUE, trade_date |-> None]
         ELSE IF market_data.date.t # "nokey"
         THEN [raised |-> FALSE, trade_date |-> market_data.date]
         ELSE IF market_data.timestamp.t = "str"
         THEN LET p == ParseTimestamp(market_data.timestamp.s, binding) IN
              IF p.raised THEN ScanFeatures(Tail(fl), binding)
              ELSE [raised |-> FALSE, trade_date |-> Str(p.value)]
         ELSE ScanFeatures(Tail(fl), binding)

\* lines 279-285: the date of the context
FromContext(c, found) ==
    IF ~Truthy(found) /\ CtxTruthy(c) /\ c.date.t # "nokey"
    THEN IF c.date.t = "date" THEN Str(Strftime(c.date))
         ELSE IF c.date.t = "str" THEN c.date
         ELSE found
    ELSE found

\* lines 254-297: the resolved trade date and the binding of `datetime`
\* when the block is left
ResolveTradeDate(fl, c, binding) ==
    IF fl = <<>> THEN [trade_date |-> None, binding |-> binding]
    ELSE LET scan == ScanFeatures(fl, binding) IN
         IF scan.raised
         THEN [trade_date |-> Str(Strftime(Now)), binding |-> "bound"]
         ELSE LET d == FromContext(c, scan.trade_date) IN
              IF ~Truthy(d)
              THEN [trade_date |-> Str(Strftime(Now)), binding |-> "bound"]
              ELSE [trade_date |-> d, binding |-> binding]

-----------------------------------------------------------------------------
(* Arguments *)

Syms == {"AAPL", "MSFT"}       \* candidate symbols
Hallucinated == "TSLA"         \* a symbol that is never a candidate
SymPool == <<"AAPL", "MSFT", "GOOGL", "NVDA">>

\* all sequences over S of length at most n
Lists(S, n) == UNION {[1..k -> S] : k \in 0..n}

Features(market_data, position_state) ==
    [t |-> "dict", market_data |-> market_data, position_state |-> position_state,
     fundamental_data |-> Str("pe=31.2")]

Item(symbol, features) == [symbol |-> symbol, features |-> features]

GoodCfg ==
    [t |-> "dict", llm |-> [t |-> "dict", empty |-> FALSE], portfolio |-> NoKey]

\* candidates that differ in their symbol only; one has no "symbol" key
PlainItems ==
    {Item(sf, Features(NoKey, NoKey)) : sf \in {Str(s) : s \in Syms} \cup {NoKey}}

\* what the classification service does
Messages ==
    {"timeout",
     "HTTPSConnectionPool(host='api.openai.com', port=44",
     "HTTPSConnectionPool(host='api.openai.com', port=443): Max retries exceeded"}

NeedElements == {Str(s) : s \in Syms \cup {Hallucinated}} \cup {[t |-> "list"]}

NeedFields ==
    {NoKey, Str("AAPL")}
        \cup {[t |-> "list", items |-> l] : l \in Lists(NeedElements, MaxNeed)}

ReasoningTexts == [s \in Syms \cup {Hallucinated} |-> "service reasoning for " \o s]

ReasoningFields ==
    {NoKey, NotDict}
        \cup {[t |-> "dict", map |-> [s \in D |-> ReasoningTexts[s]]] :
                D \in SUBSET (Syms \cup {Hallucinated})}

Responses ==
    {None, Str("I cannot answer that")}
        \cup {[t |-> "dict", need |-> n, reasoning |-> r, extra |-> FALSE] :
                n \in NeedFields, r \in ReasoningFields}
        \cup {[t |-> "dict", need |-> NoKey, reasoning |-> NoKey, extra |-> TRUE]}

ServiceOutcomes ==
    {[t |-> "raise", message |-> m] : m \in Messages}
        \cup {[t |-> "return", data |-> d] : d \in Responses}

GoodOutcome ==
    [t |-> "return",
     data |-> [t |-> "dict", need |-> [t |-> "list", items |-> <<Str("AAPL")>>],
               reasoning |-> NoKey, extra |-> FALSE]]

BaseInput ==
    [call |-> "filter", enable_llm |-> TRUE, cfg |-> GoodCfg, ctx |-> None,
     features_list |-> <<>>, previous_decisions |-> None,
     decision_history |-> None, current_features |-> None,
     service |-> GoodOutcome]

\* the state at the entry of a call with arguments `in`
InitWith(in) ==
    /\ call = in.call
    /\ pc = "entry"
    /\ enable_llm = in.enable_llm
    /\ cfg = in.cfg
    /\ ctx = in.ctx
    /\ features_list = in.features_list
    /\ previous_decisions = in.previous_decisions
    /\ decision_history = in.decision_history
    /\ current_features = in.current_features
    /\ service = in.service
    /\ llm_cfg_raw = [t |-> "unset"]
    /\ symbols = EmptyMap
    /\ portfolio_info = None
    /\ history = EmptyMap
    /\ trade_date = None
    /\ datetime_local = "unbound"
    /\ data = None
    /\ llm_calls = 0
    /\ caught = ""
    /\ exc = ""
    /\ result = None

\* the responses of the service, for every list of candidates
ResponseInputs ==
    \E fl \in Lists(PlainItems, MaxItems), sv \in ServiceOutcomes :
        InitWith([BaseInput EXCEPT !.features_list = fl, !.service = sv])

\* the switch and the configuration
Cfgs ==
    {None,
     [t |-> "dict", llm |-> NoKey, portfolio |-> NoKey],
     [t |-> "dict", llm |-> [t |-> "dict", empty |-> TRUE], portfolio |-> NoKey],
     GoodCfg}

ConfigInputs ==
    \E e \in BOOLEAN, c \in Cfgs, fl \in Lists(PlainItems, MaxItems),
       sv \in {GoodOutcome, [t |-> "raise", message |-> "timeout"]} :
        InitWith([BaseInput EXCEPT !.enable_llm = e, !.cfg = c,
                                !.features_list = fl, !.service = sv])

\* candidates that differ in their market_data; the i-th has the i-th symbol
MarketDatas ==
    {NoKey, None}
        \cup {[t |-> "dict", date |-> d, timestamp |-> ts] :
                d \in {NoKey, Str(""), Str("2024-03-14")},
                ts \in {NoKey, Str("2024-03-15T09:30:00Z"), Str("yesterday"),
                        Num(1710495000)}}

Numbered(fs) == [i \in 1..Len(fs) |-> Item(Str(SymPool[i]), fs[i])]

Ctx(date, portfolio) == [t |-> "dict", date |-> date, portfolio |-> portfolio]

DateCtxs ==
    {None}
        \cup {Ctx(d, NoKey) : d \in {NoKey, Str("2024-03-10"), Str(""),
                                     DateObj(2024, 3, 11), Num(20240310)}}

DateInputs ==
    \E fs \in Lists({Features(md, NoKey) : md \in MarketDatas}, MaxItems),
       c \in DateCtxs :
        InitWith([BaseInput EXCEPT !.features_list = Numbered(fs), !.ctx = c])

\* candidates that differ in their position_state
PositionStates ==
    {NoKey, NotDict}
        \cup {[t |-> "dict", current_position_value |-> v] :
                v \in {NoKey, None, Num(0), Num(1500), Str("n/a")}}

PortfolioCtxs ==
    {None}
        \cup {Ctx(NoKey, [t |-> "obj", cash |-> c]) :
                c \in {NoKey, Num(0), Num(50000), Str("n/a")}}

PortfolioCfgs ==
    {[GoodCfg EXCEPT !.portfolio = [t |-> "dict", total_cash |-> tc]] :
        tc \in {NoKey, Num(1000)}} \cup {GoodCfg}

PortfolioInputs ==
    \E fs \in Lists({Features(NoKey, ps) : ps \in PositionStates}
                        \cup {NotDict}, MaxItems),
       c \in PortfolioCtxs, g \in PortfolioCfgs :
        InitWith([BaseInput EXCEPT !.features_list = Numbered(fs), !.ctx = c,
                                !.cfg = g])

\* prior decisions: the i-th entry is for the i-th symbol
Decisions ==
    {NotDict}
        \cup {[t |-> "dict", action |-> a, cash_change |-> cc,
               target_cash_amount |-> tg, reasons |-> NoKey, confidence |-> NoKey] :
                a \in {NoKey, Str("hold"), Str("buy")},
                cc \in {Num(0), Num(500)},
                tg \in {Num(0), Num(1000)}}

Entries(ds) == [i \in 1..Len(ds) |-> [symbol |-> SymPool[i], decision |-> ds[i]]]

Metas ==
    {NoKey, NotDict, [t |-> "dict", date |-> NoKey],
     [t |-> "dict", date |-> Str("2024-03-14")]}

PreviousDecisions(metas) ==
    {None, NotDict}
        \cup {[t |-> "dict", meta |-> m, entries |-> Entries(ds)] :
                m \in metas, ds \in Lists(Decisions, MaxDecisions)}

\* current_features handed to the history builder: a symbol may be missing,
\* hold a position value, or hold a value that is not a number
HistoryPositionStates ==
    {[t |-> "dict", current_position_value |-> v] :
        v \in {Num(0), Num(1500), Str("n/a")}}

CurrentFeaturesArgs ==
    {None}
        \cup UNION {
            {[t |-> "dict", map |-> f] :
                f \in [D -> {Features(NoKey, ps) : ps \in HistoryPositionStates}]} :
            D \in SUBSET {SymPool[i] : i \in 1..MaxDecisions}}

\* direct calls of _build_history_from_previous_decisions
HistoryInputs ==
    \E pd \in PreviousDecisions({NoKey, [t |-> "dict", date |-> Str("2024-03-14")]}),
       cf \in CurrentFeaturesArgs :
        InitWith([BaseInput EXCEPT !.call = "build_history",
                                !.previous_decisions = pd,
                                !.current_features = cf])

\* calls of the agent with prior decisions or a long-term history
SomeDecisions ==
    {NotDict,
     [t |-> "dict", action |-> Str("hold"), cash_change |-> Num(0),
      target_cash_amount |-> Num(0), reasons |-> NoKey, confidence |-> NoKey],
     [t |-> "dict", action |-> Str("buy"), cash_change |-> Num(500),
      target_cash_amount |-> Num(1000), reasons |-> NoKey, confidence |-> NoKey]}

LongTermRecord ==
    [date |-> Str("2024-03-01"), action |-> Str("sell"), cash_change |-> Num(-200),
     target_cash_amount |-> Num(0), reasons |-> <<>>, confidence |-> Str("0.9")]

DecisionHistories ==
    {None, [t |-> "dict", map |-> EmptyMap],
     [t |-> "dict", map |-> [s \in {"AAPL"} |-> <<LongTermRecord, LongTermRecord>>]]}

FilterHistoryInputs ==
    \E ps \in {NoKey, [t |-> "dict", current_position_value |-> Num(1500)]},
       pd \in {None, NotDict}
                \cup {[t |-> "dict", meta |-> m, entries |-> Entries(ds)] :
                        m \in Metas, ds \in Lists(SomeDecisions, MaxDecisions)},
       dh \in DecisionHistories :
        InitWith([BaseInput EXCEPT !.features_list = Numbered(<<Features(NoKey, ps)>>),
                                !.previous_decisions = pd,
                                !.decision_history = dh])

-----------------------------------------------------------------------------
(* The state machine *)

Init ==
    \/ ResponseInputs
    \/ ConfigInputs
    \/ DateInputs
    \/ PortfolioInputs
    \/ FilterHistoryInputs

InitHistory == HistoryInputs

\* (cfg or {}).get("llm", {}) of line 140
LlmCfgRaw(config) ==
    IF config.t = "dict" THEN Get(config.llm, [t |-> "dict", empty |-> TRUE])
    ELSE [t |-> "dict", empty |-> TRUE]

NoConfigError ==
    "No LLM configuration found. Use --llm-profile parameter to specify configuration."

\* lines 131-137: LLM not enabled
ReturnLLMDisabled ==
    /\ call = "filter" /\ pc = "entry"
    /\ ~enable_llm
    /\ result' = DisabledResult(features_list)
    /\ pc' = "returned"
    /\ UNCHANGED <<call, enable_llm, cfg, ctx, features_list, previous_decisions,
                   decision_history, current_features, service, llm_cfg_raw,
                   symbols, portfolio_info, history, trade_date, datetime_local,
                   data, llm_calls, caught, exc>>

\* lines 139-145: no llm configuration
RaiseNoLLMConfig ==
    /\ call = "filter" /\ pc = "entry"
    /\ enable_llm
    /\ LlmCfgRaw(cfg).empty
    /\ llm_cfg_raw' = LlmCfgRaw(cfg)
    /\ exc' = NoConfigError
    /\ pc' = "raised"
    /\ UNCHANGED <<call, enable_llm, cfg, ctx, features_list, previous_decisions,
                   decision_history, current_features, service, symbols,
                   portfolio_info, history, trade_date, datetime_local, data,
                   llm_calls, caught, result>>

\* lines 139-251: with an llm configuration, the request is assembled; an
\* exception of lines 194-224 leaves the function
AssembleRequest ==
    /\ call = "filter" /\ pc = "entry"
    /\ enable_llm
    /\ ~LlmCfgRaw(cfg).empty
    /\ llm_cfg_raw' = LlmCfgRaw(cfg)
    /\ LET total == TotalPosition(features_list)
           info == PortfolioInfo(ctx, cfg, total.value)
       IN  IF total.raised
           THEN /\ exc' = "TypeError or AttributeError (lines 194-211)"
                /\ pc' = "raised"
                /\ UNCHANGED <<symbols, portfolio_info, history>>
           ELSE IF info.raised
           THEN /\ exc' = "AttributeError or ValueError (line 218)"
                /\ pc' = "raised"
                /\ symbols' = SymbolsMap(features_list)
                /\ UNCHANGED <<portfolio_info, history>>
           ELSE /\ symbols' = SymbolsMap(features_list)
                /\ portfolio_info' = info.value
                /\ history' = RequestHistory(decision_history, previous_decisions,
                                             features_list)
                /\ pc' = "date"
                /\ exc' = exc
    /\ UNCHANGED <<call, enable_llm, cfg, ctx, features_list, previous_decisions,
                   decision_history, current_features, service, trade_date,
                   datetime_local, data, llm_calls, caught, result>>

\* lines 253-297
ResolveDate ==
    /\ call = "filter" /\ pc = "date"
    /\ LET r == ResolveTradeDate(features_list, ctx, datetime_local)
       IN  /\ trade_date' = r.trade_date
           /\ datetime_local' = r.binding
    /\ pc' = "call"
    /\ UNCHANGED <<call, enable_llm, cfg, ctx, features_list, previous_decisions,
                   decision_history, current_features, service, llm_cfg_raw,
                   symbols, portfolio_info, history, data, llm_calls, caught,
                   exc, result>>

\* lines 299-310: the classification call, inside the try of line 305
CallClassifier ==
    /\ call = "filter" /\ pc = "call"
    /\ llm_calls' = llm_calls + 1
    /\ IF service.t = "raise"
       THEN /\ caught' = service.message
            /\ pc' = "handler"
            /\ data' = data
       ELSE /\ data' = service.data
            /\ pc' = "validate"
            /\ caught' = caught
    /\ UNCHANGED <<call, enable_llm, cfg, ctx, features_list, previous_decisions,
                   decision_history, current_features, service, llm_cfg_raw,
                   symbols, portfolio_info, history, trade_date, datetime_local,
                   exc, result>>

\* lines 312-364: validation of the response, inside the try of line 305
ValidateResponse ==
    /\ call = "filter" /\ pc = "validate"
    /\ IF InvalidFormat(data)
       THEN /\ result' = InvalidFormatFallback(features_list)
            /\ pc' = "returned"
            /\ caught' = caught
       ELSE IF NeedOf(data).t # "list"
       THEN /\ result' = NotAListFallback(features_list)
            /\ pc' = "returned"
            /\ caught' = caught
       ELSE IF Unhashable(NeedOf(data).items)
       THEN /\ caught' = UnhashableMessage
            /\ pc' = "handler"
            /\ result' = result
       ELSE /\ result' = SanitizedResult(features_list, data)
            /\ pc' = "returned"
            /\ caught' = caught
    /\ UNCHANGED <<call, enable_llm, cfg, ctx, features_list, previous_decisions,
                   decision_history, current_features, service, llm_cfg_raw,
                   symbols, portfolio_info, history, trade_date, datetime_local,
                   data, llm_calls, exc>>

\* lines 366-374: the handler of the try of line 305
HandleException ==
    /\ call = "filter" /\ pc = "handler"
    /\ result' = ExceptionFallback(features_list, caught)
    /\ pc' = "returned"
    /\ UNCHANGED <<call, enable_llm, cfg, ctx, features_list, previous_decisions,
                   decision_history, current_features, service, llm_cfg_raw,
                   symbols, portfolio_info, history, trade_date, datetime_local,
                   data, llm_calls, caught, exc>>

\* lines 33-98: a call of _build_history_from_previous_decisions
CallBuildHistory ==
    /\ call = "build_history" /\ pc = "entry"
    /\ history' = BuildHistory(previous_decisions, current_features)
    /\ pc' = "returned"
    /\ UNCHANGED <<call, enable_llm, cfg, ctx, features_list, previous_decisions,
                   decision_history, current_features, service, llm_cfg_raw,
                   symbols, portfolio_info, trade_date, datetime_local, data,
                   llm_calls, caught, exc, result>>

Next ==
    \/ ReturnLLMDisabled
    \/ RaiseNoLLMConfig
    \/ AssembleRequest
    \/ ResolveDate
    \/ CallClassifier
    \/ ValidateResponse
    \/ HandleException

NextHistory == CallBuildHistory

Spec == Init /\ [][Next]_vars

SpecHistory == InitHistory /\ [][NextHistory]_vars

-----------------------------------------------------------------------------
(* Properties of filter_stocks_needing_fundamental *)

\* the function returned after one classification call that returned d
ReturnedAfterResponse ==
    /\ call = "filter" /\ pc = "returned"
    /\ llm_calls = 1 /\ service.t = "return"

\* a response that is not a structured object, or whose
\* stocks_need_fundamental field is missing or not a list
Malformed(d) == d.t # "dict" \/ d.need.t # "list"

\* C1: with the LLM enabled and configured, every malformed response (not a
\* structured object, stocks_need_fundamental missing, or not a list) yields
\* a required-list equal to the full list of input symbols.
C1_MalformedFallsBackToAll ==
    (ReturnedAfterResponse /\ Malformed(service.data))
        => result.stocks_need_fundamental = SymbolList(features_list)

\* the text of the first 50 characters of a message
First50(m) == IF Len(m) <= 50 THEN m ELSE SubSeq(m, 1, 50)

\* C2: when the classification call raises, the function returns normally
\* with all input symbols, in input order, and for each input symbol a
\* failure text that holds the first 50 characters of the exception message.
C2_FallbackOnException ==
    (call = "filter" /\ llm_calls = 1 /\ service.t = "raise")
        => /\ pc \in {"handler", "returned"}
           /\ pc = "returned" =>
                /\ result.stocks_need_fundamental = SymbolList(features_list)
                /\ DOMAIN result.reasoning = InputSymbols(features_list)
                /\ \A s \in InputSymbols(features_list) :
                     result.reasoning[s] =
                        "Error during filtering (" \o First50(service.message)
                            \o "), requiring fundamental analysis as fallback"

C2_Witness ==
    /\ call = "filter" /\ pc = "returned"
    /\ llm_calls = 1 /\ service.t = "raise"
    /\ Len(service.message) > 50
    /\ Len(features_list) = 2
    /\ Cardinality(InputSymbols(features_list)) = 2

\* a response whose stocks_need_fundamental is a list of symbols
WellFormed(d) ==
    /\ d.t = "dict" /\ d.need.t = "list"
    /\ \A i \in 1..Len(d.need.items) : d.need.items[i].t = "str"

ServiceList(d) == [i \in 1..Len(d.need.items) |-> d.need.items[i].s]

ServiceReasoning(d) ==
    IF d.reasoning.t = "dict" THEN d.reasoning.map ELSE EmptyMap

\* C3: for a well-formed response the returned required-list is the service's
\* list restricted to the input symbols, in the service's order, and a listed
\* symbol that is not an input symbol has a reasoning entry only if the
\* service supplied it.
C3_AntiHallucination ==
    (ReturnedAfterResponse /\ WellFormed(service.data))
        => LET IsInput(x) == x \in InputSymbols(features_list)
               listed == ServiceList(service.data)
           IN  /\ result.stocks_need_fundamental = SelectSeq(listed, IsInput)
               /\ \A i \in 1..Len(listed) :
                    ~IsInput(listed[i]) =>
                        /\ \A j \in 1..Len(result.stocks_need_fundamental) :
                                result.stocks_need_fundamental[j] # listed[i]
                        /\ listed[i] \in DOMAIN result.reasoning =>
                            /\ listed[i] \in DOMAIN ServiceReasoning(service.data)
                            /\ result.reasoning[listed[i]] =
                                    ServiceReasoning(service.data)[listed[i]]

C3_Witness ==
    /\ ReturnedAfterResponse /\ WellFormed(service.data)
    /\ service.data.need.items = <<Str(Hallucinated), Str("MSFT")>>
    /\ "MSFT" \in InputSymbols(features_list)
    /\ Hallucinated \notin DOMAIN ServiceReasoning(service.data)
    /\ result.stocks_need_fundamental = <<"MSFT">>

\* C4: every returned result has a reasoning entry for every input symbol;
\* a symbol the service gave no reasoning for gets a default that tells
\* whether the service listed it.
C4_Completeness ==
    (call = "filter" /\ pc = "returned")
        => /\ InputSymbols(features_list) \subseteq DOMAIN result.reasoning
           /\ \A s \in InputSymbols(features_list) : Len(result.reasoning[s]) > 0
           /\ (ReturnedAfterResponse /\ WellFormed(service.data)) =>
                \A s \in InputSymbols(features_list) :
                    s \notin DOMAIN ServiceReasoning(service.data) =>
                        result.reasoning[s] =
                            IF \E i \in 1..Len(service.data.need.items) :
                                    service.data.need.items[i].s = s
                            THEN "Requires fundamental analysis (no specific reasoning provided)"
                            ELSE "Technical analysis sufficient (no specific reasoning provided)"

C4_Witness ==
    /\ ReturnedAfterResponse /\ WellFormed(service.data)
    /\ InputSymbols(features_list) = {"AAPL", "MSFT"}
    /\ service.data.need.items = <<Str("AAPL")>>
    /\ DOMAIN ServiceReasoning(service.data) = {}
    /\ result.reasoning["AAPL"] # result.reasoning["MSFT"]

\* the llm configuration is absent
NoLLMConfig ==
    \/ cfg.t # "dict"
    \/ cfg.llm.t = "nokey"
    \/ cfg.llm.empty

\* C5: the caller always receives a result, except that an explicit
\* configuration error is raised when the LLM is enabled and the llm
\* configuration is absent; no other error reaches the caller.
C5_OnlyConfigErrorPropagates ==
    (call = "filter" /\ pc = "raised")
        => enable_llm /\ NoLLMConfig /\ exc = NoConfigError

\* C6: with enable_llm = False no classification call is made, the llm
\* configuration is not read, the required-list is the input symbols exactly
\* and every symbol has a non-empty reasoning.
C6_DisabledRequiresAll ==
    (call = "filter" /\ ~enable_llm)
        => /\ pc \in {"entry", "returned"}
           /\ llm_calls = 0
           /\ llm_cfg_raw.t = "unset"
           /\ pc = "returned" =>
                /\ result.stocks_need_fundamental = SymbolList(features_list)
                /\ {result.stocks_need_fundamental[i] :
                        i \in 1..Len(result.stocks_need_fundamental)}
                     = InputSymbols(features_list)
                /\ DOMAIN result.reasoning = InputSymbols(features_list)
                /\ \A s \in InputSymbols(features_list) :
                        Len(result.reasoning[s]) > 0

C6_Witness ==
    /\ call = "filter" /\ ~enable_llm /\ pc = "returned"
    /\ cfg.t = "none"
    /\ Len(features_list) = 2
    /\ Cardinality(InputSymbols(features_list)) = 2

-----------------------------------------------------------------------------
(* Properties of the trade date *)

\* no candidate's market_data has a date or a timestamp field
NoFeatureDates ==
    \A i \in 1..Len(features_list) :
        LET md == MarketData(features_list[i]) IN
        md.t = "dict" /\ md.date.t = "nokey" /\ md.timestamp.t = "nokey"

\* the context supplies a date: a string or a date-like object
ContextSuppliesDate ==
    /\ ctx.t = "dict"
    /\ \/ ctx.date.t = "date"
       \/ ctx.date.t = "str" /\ ctx.date.s # ""

ContextDate == IF ctx.date.t = "date" THEN Str(Strftime(ctx.date)) ELSE ctx.date

SystemDate == Str(Strftime(Now))

\* C8: when no candidate has a date or timestamp field (the list may be
\* empty), the trade date passed to the classification call is the context's
\* date when the context supplies one, else the current system date; it is
\* never left unset.
C8_DateWithoutFeatureDates ==
    (call = "filter" /\ pc = "call" /\ NoFeatureDates)
        => /\ trade_date.t # "none"
           /\ trade_date = IF ContextSuppliesDate THEN ContextDate ELSE SystemDate

\* every market_data is a mapping, and an explicit date is never empty
CleanMarketData ==
    \A i \in 1..Len(features_list) :
        LET md == MarketData(features_list[i]) IN
        md.t = "dict" /\ (md.date.t = "nokey" \/ Truthy(md.date))

HasExplicitDate(i) == MarketData(features_list[i]).date.t # "nokey"

HasParseableTimestamp(i) ==
    LET ts == MarketData(features_list[i]).timestamp IN
    ts.t = "str" /\ ~FromIsoFormat(ReplaceZ(ts.s)).raised

First(P(_)) ==
    CHOOSE i \in 1..Len(features_list) : P(i) /\ \A j \in 1..(i - 1) : ~P(j)

\* the date of the highest-priority available source
DateByPrecedence ==
    IF \E i \in 1..Len(features_list) : HasExplicitDate(i)
    THEN MarketData(features_list[First(HasExplicitDate)]).date
    ELSE IF \E i \in 1..Len(features_list) : HasParseableTimestamp(i)
    THEN Str(Strftime(FromIsoFormat(ReplaceZ(
            MarketData(features_list[First(HasParseableTimestamp)]).timestamp.s))))
    ELSE IF ContextSuppliesDate THEN ContextDate
    ELSE SystemDate

\* C9: the resolved trade date comes from the highest-priority available
\* source: an explicit date of any candidate, else the calendar date of a
\* parseable timestamp of any candidate, else the context's date, else the
\* system date.  Stated for a non-empty list of candidates with well-formed
\* market data.
C9_DatePrecedence ==
    (call = "filter" /\ pc = "call" /\ features_list # <<>> /\ CleanMarketData)
        => trade_date = DateByPrecedence

-----------------------------------------------------------------------------
(* Properties of _build_history_from_previous_decisions *)

HistoryReturned ==
    /\ call = "build_history" /\ pc = "returned"
    /\ previous_decisions.t = "dict"

\* the current position value of a symbol, when it is a positive number
HasPositivePosition(symbol) ==
    /\ current_features.t = "dict"
    /\ symbol \in DOMAIN current_features.map
    /\ current_features.map[symbol].t = "dict"
    /\ current_features.map[symbol].position_state.t = "dict"
    /\ current_features.map[symbol].position_state.current_position_value.t = "num"
    /\ current_features.map[symbol].position_state.current_position_value.n > 0

PositionOf(symbol) ==
    current_features.map[symbol].position_state.current_position_value

\* what a decision records, with the defaults of a missing key
RecordedAction(d) == IF d.action.t = "nokey" THEN "hold" ELSE d.action.s
RecordedCashChange(d) == IF d.cash_change.t = "nokey" THEN 0 ELSE d.cash_change.n
RecordedTarget(d) ==
    IF d.target_cash_amount.t = "nokey" THEN 0 ELSE d.target_cash_amount.n

\* C7: the record's target_cash_amount is the symbol's current position value
\* exactly when the action is "hold", the recorded target_cash_amount and
\* cash_change are both zero and the current position value is positive;
\* otherwise the recorded target_cash_amount is kept.
C7_HoldRepair ==
    HistoryReturned =>
        \A i \in 1..Len(previous_decisions.entries) :
            LET e == previous_decisions.entries[i] IN
            (e.decision.t = "dict" /\ e.symbol \in DOMAIN history) =>
                /\ Len(history[e.symbol]) = 1
                /\ history[e.symbol][1].target_cash_amount =
                      IF /\ RecordedAction(e.decision) = "hold"
                         /\ RecordedTarget(e.decision) = 0
                         /\ RecordedCashChange(e.decision) = 0
                         /\ HasPositivePosition(e.symbol)
                      THEN PositionOf(e.symbol)
                      ELSE Num(RecordedTarget(e.decision))

C7_Witness ==
    /\ HistoryReturned
    /\ Len(previous_decisions.entries) = 2
    /\ LET d1 == previous_decisions.entries[1].decision
           d2 == previous_decisions.entries[2].decision
       IN  /\ d1.t = "dict" /\ d2.t = "dict"
           /\ RecordedAction(d1) = "hold" /\ RecordedAction(d2) = "hold"
           /\ RecordedTarget(d1) = 0 /\ RecordedTarget(d2) = 0
           /\ RecordedCashChange(d1) = 0 /\ RecordedCashChange(d2) = 500
    /\ HasPositivePosition(SymPool[1]) /\ HasPositivePosition(SymPool[2])
    /\ DOMAIN history = {SymPool[1], SymPool[2]}
    /\ history[SymPool[1]][1].target_cash_amount = Num(1500)
    /\ history[SymPool[2]][1].target_cash_amount = Num(0)

\* handling the i-th entry raises: the repair is attempted and the current
\* position value of the symbol is not a number
EntryRaises(i) ==
    LET e == previous_decisions.entries[i] IN
    /\ e.decision.t = "dict"
    /\ RecordedAction(e.decision) = "hold"
    /\ RecordedTarget(e.decision) = 0
    /\ RecordedCashChange(e.decision) = 0
    /\ current_features.t = "dict"
    /\ e.symbol \in DOMAIN current_features.map
    /\ PositionOf(e.symbol).t # "num"

\* C10: an error raised while handling one symbol's prior decision is caught
\* for that symbol only: every other symbol with a well-formed prior
\* decision, before or after the failing one, has its record in the returned
\* history, and the function never raises.
C10_ErrorIsolation ==
    /\ call = "build_history" => pc # "raised"
    /\ HistoryReturned =>
        \A i \in 1..Len(previous_decisions.entries) :
            LET e == previous_decisions.entries[i] IN
            (e.decision.t = "dict" /\ ~EntryRaises(i)) => e.symbol \in DOMAIN history

-----------------------------------------------------------------------------
(* Properties of the portfolio snapshot *)

\* the request was assembled: portfolio_info holds the snapshot of the request
RequestAssembled ==
    /\ call = "filter" /\ enable_llm
    /\ pc \in {"date", "call", "validate", "handler", "returned"}

\* the live cash of the context, when the context has a portfolio
LivePath == ctx.t = "dict" /\ ctx.portfolio.t # "nokey"

\* the configured total_cash, 100000 when it is not configured
ConfiguredTotalCash ==
    IF cfg.portfolio.t = "dict" /\ cfg.portfolio.total_cash.t = "num"
    THEN cfg.portfolio.total_cash.n
    ELSE DefaultTotalCash

\* every candidate's position value, the live cash and the configured
\* total_cash are non-negative
NonNegativeInputs ==
    /\ \A i \in 1..Len(features_list) :
            symbols[SymbolOf(features_list[i])].features.position_state.t = "dict"
                => Get(symbols[SymbolOf(features_list[i])].features
                            .position_state.current_position_value, Num(0)).n >= 0
    /\ LivePath => ctx.portfolio.cash.n >= 0
    /\ ConfiguredTotalCash >= 0

\* C11: for non-negative inputs the portfolio_info of the request has
\* total_assets, available_cash and position_value all non-negative, on the
\* live-context path and on the static path.
C11_SnapshotNonNegative ==
    (RequestAssembled /\ NonNegativeInputs)
        => /\ portfolio_info.total_assets >= 0
           /\ portfolio_info.available_cash >= 0
           /\ portfolio_info.position_value >= 0

====
